---- MODULE Spec2Model ----
(***************************************************************************)
(* Model of the CQL interpreter (src/main.py, src/parser.py, src/lexer.py). *)
(*                                                                         *)
(* Strings are sequences of one-character strings, so that the CSV codec   *)
(* and the numeric coercion of evaluate_condition work on characters as    *)
(* the code does.  A row (a Python dict) is a function from column names   *)
(* to values; dict equality ignores key order, and so does the model.      *)
(* None is the empty tuple <<>>.                                           *)
(***************************************************************************)
EXTENDS Integers, Sequences, FiniteSets, TLC

VARIABLES tables, procedures, files, out, trace, pc, input, result, idx, last, q,
          ids

vars == <<tables, procedures, files, out, trace, pc, input, result, idx, last, q, ids>>

None == <<>>

\* ------------------------------------------------------------------------
\* Characters and strings

QUOTE == "\""
COMMA == ","
HASH == "#"
SPACE == " "
DOT == "."
MINUS == "-"

Digits == {"0", "1", "2", "3", "4", "5", "6", "7", "8", "9"}

DigitVal(c) ==
  CASE c = "0" -> 0 [] c = "1" -> 1 [] c = "2" -> 2 [] c = "3" -> 3
    [] c = "4" -> 4 [] c = "5" -> 5 [] c = "6" -> 6 [] c = "7" -> 7
    [] c = "8" -> 8 [] c = "9" -> 9

\* All sequences over S of length at most n.
SeqsUpTo(S, n) == UNION {[1..k -> S] : k \in 0..n}

Contains(s, c) == \E i \in 1..Len(s) : s[i] = c

RECURSIVE lstrip(_)
lstrip(s) == IF s # <<>> /\ Head(s) = SPACE THEN lstrip(Tail(s)) ELSE s

RECURSIVE rstrip(_)
rstrip(s) ==
  IF s # <<>> /\ s[Len(s)] = SPACE THEN rstrip(SubSeq(s, 1, Len(s) - 1)) ELSE s

\* str.strip(): the whitespace of the model's alphabet is the space.
strip(s) == rstrip(lstrip(s))

\* str.isdigit(): non-empty and every character a digit.
isdigit(s) == s # <<>> /\ \A i \in 1..Len(s) : s[i] \in Digits

\* ------------------------------------------------------------------------
\* parse_csv_line (src/main.py:118-156)

RECURSIVE ScanCsv(_, _, _, _, _)
ScanCsv(line, i, values, current, in_quotes) ==
  IF i > Len(line)
  THEN [raised |-> in_quotes, values |-> Append(values, strip(current))]
  ELSE LET char == line[i] IN
    IF char = QUOTE
    THEN IF ~in_quotes
         THEN ScanCsv(line, i + 1, values, current, TRUE)
         ELSE IF i + 1 <= Len(line) /\ line[i + 1] = QUOTE
              THEN ScanCsv(line, i + 2, values, Append(current, QUOTE), in_quotes)
              ELSE ScanCsv(line, i + 1, values, current, FALSE)
    ELSE IF char = COMMA /\ ~in_quotes
         THEN ScanCsv(line, i + 1, Append(values, strip(current)), <<>>, in_quotes)
         ELSE ScanCsv(line, i + 1, values, Append(current, char), in_quotes)

\* raised: the ValueError for quotes left open at the end of the line.
parse_csv_line(line) == ScanCsv(line, 1, <<>>, <<>>, FALSE)

\* ------------------------------------------------------------------------
\* import_csv (src/main.py:158-215)

\* The lines kept by the reading loop: stripped, neither blank nor comments.
KeepLine(line) == IF line = <<>> \/ Head(line) = HASH THEN <<>> ELSE <<line>>

RECURSIVE ReadLines(_)
ReadLines(content) ==
  IF content = <<>> THEN <<>>
  ELSE KeepLine(strip(Head(content))) \o ReadLines(Tail(content))

\* {col: value for col, value in zip(header, values)}: a later duplicate of
\* a column name overwrites an earlier one.
ZipRow(header, values) ==
  [col \in {header[i] : i \in 1..Len(header)} |->
     LET n == CHOOSE i \in 1..Len(header) :
                /\ header[i] = col
                /\ \A j \in 1..Len(header) : header[j] = col => j <= i
     IN values[n]]

\* A data line handling that keeps a line with too few or too many values,
\* padding with empty strings, instead of skipping it.
ImportRowPadded(header, p) ==
  IF p.raised THEN <<>>
  ELSE <<ZipRow(header, [i \in 1..Len(header) |->
                          IF i <= Len(p.values) THEN p.values[i] ELSE <<>>])>>

\* One data line (lines 195-206): p is what parse_csv_line made of it.  A
\* line with quotes left open or with another number of values than the
\* header is skipped.
ImportRow(header, p) ==
  IF p.raised \/ Len(p.values) # Len(header) THEN <<>>
  ELSE <<ZipRow(header, p.values)>>

RECURSIVE ImportRows(_, _)
ImportRows(header, lines) ==
  IF lines = <<>> THEN <<>>
  ELSE ImportRow(header, parse_csv_line(Head(lines)))
       \o ImportRows(header, Tail(lines))

NoData == [ok |-> FALSE, data |-> <<>>]

\* Lines 183-209: h is what parse_csv_line made of the header line.
ImportTable(h, lines) ==
  IF h.raised THEN NoData
  ELSE IF \E i \in 1..Len(h.values) :
            strip(h.values[i]) = <<>> \/ Contains(h.values[i], COMMA)
  THEN NoData
  ELSE [ok |-> TRUE, data |-> ImportRows(h.values, lines)]

ImportLines(lines) ==
  IF lines = <<>> THEN NoData
  ELSE ImportTable(parse_csv_line(Head(lines)), Tail(lines))

\* The result is NoData for None, [ok |-> TRUE, data |-> rows] else.
import_csv(disk, file_name) ==
  IF file_name \notin DOMAIN disk THEN NoData
  ELSE ImportLines(ReadLines(disk[file_name]))

\* ------------------------------------------------------------------------
\* export_csv (src/main.py:217-245) with csv.DictWriter's default dialect

\* The keys of a dict as a list.  Key order is not part of dict equality;
\* the model fixes one order per key set.
RECURSIVE KeyList(_)
KeyList(S) ==
  IF S = {} THEN <<>>
  ELSE LET x == CHOOSE y \in S : TRUE IN <<x>> \o KeyList(S \ {x})

RECURSIVE DoubleQuotes(_)
DoubleQuotes(s) ==
  IF s = <<>> THEN <<>>
  ELSE IF Head(s) = QUOTE THEN <<QUOTE, QUOTE>> \o DoubleQuotes(Tail(s))
       ELSE <<Head(s)>> \o DoubleQuotes(Tail(s))

\* QUOTE_MINIMAL: a field is quoted when it holds the delimiter or the
\* quote character, whose occurrences are doubled.
QuoteField(s) ==
  IF Contains(s, COMMA) \/ Contains(s, QUOTE)
  THEN <<QUOTE>> \o DoubleQuotes(s) \o <<QUOTE>>
  ELSE s

RECURSIVE JoinFields(_)
JoinFields(fields) ==
  IF Len(fields) = 1 THEN QuoteField(fields[1])
  ELSE QuoteField(Head(fields)) \o <<COMMA>> \o JoinFields(Tail(fields))

\* writer.writerow: a record that would be empty (one empty field) is
\* written as a pair of quotes; a row of no fields is an empty line.
WriteRow(fields) ==
  IF fields = <<>> THEN <<>>
  ELSE IF Len(fields) = 1 /\ fields[1] = <<>> THEN <<QUOTE, QUOTE>>
  ELSE JoinFields(fields)

\* DictWriter._dict_to_list: a key outside fieldnames raises ValueError, a
\* missing key is written as the empty string.
DictToList(fieldnames, row) ==
  [i \in 1..Len(fieldnames) |->
     IF fieldnames[i] \in DOMAIN row THEN row[fieldnames[i]] ELSE <<>>]

\* writer.writerows: rows are written one by one; the ValueError of a row
\* with an extra key leaves the lines already written in the file.
RECURSIVE WriteRows(_, _)
WriteRows(fieldnames, rows) ==
  IF rows = <<>> THEN <<>>
  ELSE IF ~(DOMAIN Head(rows) \subseteq {fieldnames[i] : i \in 1..Len(fieldnames)})
       THEN <<>>
       ELSE <<WriteRow(DictToList(fieldnames, Head(rows)))>>
            \o WriteRows(fieldnames, Tail(rows))

\* writeheader and writerows (lines 238-240).
WriteTable(fieldnames, t) == <<WriteRow(fieldnames)>> \o WriteRows(fieldnames, t)

\* The content of the file export_csv writes for table t.
ExportLines(t) ==
  IF t = <<>> THEN <<>> ELSE WriteTable(KeyList(DOMAIN t[1]), t)

\* The disk after export_csv(table_name, file_name).
export_csv(tbls, disk, table_name, file_name) ==
  IF table_name \notin DOMAIN tbls THEN disk
  ELSE (file_name :> ExportLines(tbls[table_name])) @@ disk

\* ------------------------------------------------------------------------
\* Floating-point values: [m |-> mantissa, e |-> fraction digits] stands
\* for m / 10^e.  The NUMBER token is always a float (src/lexer.py:116-120).

RECURSIVE Pow10(_)
Pow10(n) == IF n = 0 THEN 1 ELSE 10 * Pow10(n - 1)

Float(m, e) == [m |-> m, e |-> e]

FloatLT(x, y) == x.m * Pow10(y.e) < y.m * Pow10(x.e)
FloatEQ(x, y) == x.m * Pow10(y.e) = y.m * Pow10(x.e)

\* int(x) of a float: truncation toward zero.
IntOfFloat(x) ==
  IF x.m >= 0 THEN x.m \div Pow10(x.e) ELSE -((-x.m) \div Pow10(x.e))

RECURSIVE DigitsVal(_)
DigitsVal(s) ==
  IF s = <<>> THEN 0
  ELSE 10 * DigitsVal(SubSeq(s, 1, Len(s) - 1)) + DigitVal(s[Len(s)])

AllDigits(s) == \A i \in 1..Len(s) : s[i] \in Digits

\* float(s) of a string: surrounding whitespace, an optional minus sign,
\* digits with at most one decimal point and at least one digit.  raised is
\* the ValueError.  (Exponents, inf and nan need letters outside the
\* model's alphabet.)
ValueError == [raised |-> TRUE, val |-> Float(0, 0)]

\* ip and fp are the text before and after the first decimal point.
FloatOfParts(sign, ip, fp) ==
  IF AllDigits(ip) /\ AllDigits(fp) /\ Len(ip) + Len(fp) > 0
  THEN [raised |-> FALSE, val |-> Float(sign * DigitsVal(ip \o fp), Len(fp))]
  ELSE ValueError

FirstDot(s) ==
  IF Contains(s, DOT)
  THEN CHOOSE k \in 1..Len(s) : s[k] = DOT /\ \A j \in 1..(k - 1) : s[j] # DOT
  ELSE Len(s) + 1

FloatOfBody(sign, body, d) ==
  FloatOfParts(sign, SubSeq(body, 1, d - 1), SubSeq(body, d + 1, Len(body)))

FloatOfStripped(s) ==
  IF s # <<>> /\ Head(s) = MINUS
  THEN FloatOfBody(-1, Tail(s), FirstDot(Tail(s)))
  ELSE FloatOfBody(1, s, FirstDot(s))

float_of_str(s) == FloatOfStripped(strip(s))

\* s.replace('.', '', 1): the first decimal point removed.
CutAt(s, i) == SubSeq(s, 1, i - 1) \o SubSeq(s, i + 1, Len(s))

RemoveFirstDot(s) == CutAt(s, FirstDot(s))

\* Code points of the characters the model uses.
Ord(c) ==
  CASE c = " " -> 32 [] c = "\"" -> 34 [] c = "#" -> 35 [] c = "," -> 44
    [] c = "-" -> 45 [] c = "." -> 46
    [] c \in Digits -> 48 + DigitVal(c)
    [] c = "a" -> 97 [] c = "b" -> 98 [] c = "k" -> 107 [] c = "m" -> 109
    [] c = "n" -> 110 [] c = "p" -> 112 [] c = "x" -> 120 [] c = "y" -> 121

\* s < t for Python strings: lexicographic on code points.
RECURSIVE StrLT(_, _)
StrLT(s, t) ==
  IF t = <<>> THEN FALSE
  ELSE IF s = <<>> THEN TRUE
  ELSE IF Head(s) = Head(t) THEN StrLT(Tail(s), Tail(t))
  ELSE Ord(Head(s)) < Ord(Head(t))

\* ------------------------------------------------------------------------
\* evaluate_condition (src/main.py:6-63)
\* A literal is [t |-> "num", v |-> float] (NUMBER) or [t |-> "str",
\* v |-> string] (STRING, ID).  Row values are strings: import_csv stores
\* what parse_csv_line returns.  The outcome is [raised, val]: raised is
\* the TypeError of an ordering comparison between a str and a float.

Bool(b) == [raised |-> FALSE, val |-> b]
TypeError == [raised |-> TRUE, val |-> FALSE]

CompareFloat(op, x, y) ==
  CASE op = "=" -> Bool(FloatEQ(x, y))
    [] op = "<>" -> Bool(~FloatEQ(x, y))
    [] op = "<" -> Bool(FloatLT(x, y))
    [] op = ">" -> Bool(FloatLT(y, x))
    [] op = "<=" -> Bool(~FloatLT(y, x))
    [] op = ">=" -> Bool(~FloatLT(x, y))

CompareStr(op, s, t) ==
  CASE op = "=" -> Bool(s = t)
    [] op = "<>" -> Bool(s # t)
    [] op = "<" -> Bool(StrLT(s, t))
    [] op = ">" -> Bool(StrLT(t, s))
    [] op = "<=" -> Bool(~StrLT(t, s))
    [] op = ">=" -> Bool(~StrLT(s, t))

\* A str against a float: never equal, and not ordered.
CompareStrFloat(op) ==
  CASE op = "=" -> Bool(FALSE)
    [] op = "<>" -> Bool(TRUE)
    [] OTHER -> TypeError

\* Lines 40-43 with a float literal: rf is float(row_value).  Its ValueError
\* is passed over (line 44) and the str is compared with the float.
CompareWithNum(op, rf, target_value) ==
  IF rf.raised THEN CompareStrFloat(op)
  ELSE CompareFloat(op, rf.val, target_value)

\* Lines 40-43 with a numeric-looking str literal: after the ValueError of
\* float(row_value) target_value is still the str.
CompareWithNumStr(op, row_value, rf, target_value) ==
  IF rf.raised THEN CompareStr(op, row_value, target_value)
  ELSE CompareFloat(op, rf.val, float_of_str(target_value).val)

Compare(op, row_value, target) ==
  IF target.t = "num"
  THEN CompareWithNum(op, float_of_str(row_value), target.v)
  ELSE IF isdigit(RemoveFirstDot(target.v))
  THEN CompareWithNumStr(op, row_value, float_of_str(row_value), target.v)
  ELSE CompareStr(op, row_value, target.v)

Comparison(row, op, column, target) ==
  IF column \notin DOMAIN row THEN Bool(FALSE)
  ELSE Compare(op, row[column], target)

RECURSIVE evaluate_condition(_, _)

\* a and evaluate_condition(row, right): the right side is evaluated only
\* when a is True.
AndThen(a, row, right) ==
  IF a.raised \/ ~a.val THEN a ELSE evaluate_condition(row, right)

evaluate_condition(row, condition) ==
  IF condition = None THEN Bool(TRUE)
  ELSE IF condition[1] = "WHERE" THEN evaluate_condition(row, condition[2])
  ELSE IF condition[1] = "AND"
  THEN AndThen(evaluate_condition(row, condition[2]), row, condition[3])
  ELSE Comparison(row, condition[1], condition[2], condition[3])

\* ------------------------------------------------------------------------
\* select_rows (src/main.py:65-116)
\* select_list is STAR for '*' or a list of column names; limit is None
\* or <<x>> for the float x of LIMIT's NUMBER token.  The result is [kind, rows, diag]: kind "None" (table
\* absent), "rows", or "raise" (an exception of evaluate_condition leaves
\* the function); diag is what it printed.

STAR == << <<"*">> >>

AddUnique(acc, row) ==
  IF \A i \in 1..Len(acc) : acc[i] # row THEN Append(acc, row) ELSE acc

RECURSIVE FilterRows(_, _, _)

\* One turn of the loop of lines 90-95: c is evaluate_condition(row, ...).
FilterRow(c, table, where_clause, acc) ==
  IF c.raised THEN [raised |-> TRUE, rows |-> <<>>]
  ELSE FilterRows(Tail(table), where_clause,
                  IF c.val THEN AddUnique(acc, Head(table)) ELSE acc)

\* The rows that pass the filter, first occurrences only; raised as soon as
\* one evaluation raises.
FilterRows(table, where_clause, acc) ==
  IF table = <<>> THEN [raised |-> FALSE, rows |-> acc]
  ELSE FilterRow(evaluate_condition(Head(table), where_clause),
                 table, where_clause, acc)

Take(rows, n) == SubSeq(rows, 1, IF n < Len(rows) THEN n ELSE Len(rows))

Project(row, select_list) ==
  [col \in {select_list[i] : i \in 1..Len(select_list)} \cap DOMAIN row |-> row[col]]

ProjectRows(rows, select_list) ==
  IF select_list = STAR THEN rows
  ELSE [i \in 1..Len(rows) |-> Project(rows[i], select_list)]

Rows(rows) == [kind |-> "rows", rows |-> rows, diag |-> <<>>]

\* Lines 97-116: n is int(limit).
LimitRows(filtered_rows, n, select_list) ==
  IF n < 0 THEN [kind |-> "rows", rows |-> <<>>, diag |-> <<"ErrLimit">>]
  ELSE Rows(ProjectRows(Take(filtered_rows, n), select_list))

\* Lines 97-116: f is the outcome of the filtering loop.
SelectFiltered(f, select_list, limit) ==
  IF f.raised THEN [kind |-> "raise", rows |-> <<>>, diag |-> <<>>]
  ELSE IF limit = None THEN Rows(ProjectRows(f.rows, select_list))
  ELSE LimitRows(f.rows, IntOfFloat(limit[1]), select_list)

select_rows(tbls, table_name, select_list, where_clause, limit) ==
  IF table_name \notin DOMAIN tbls
  THEN [kind |-> "None", rows |-> <<>>, diag |-> <<"ErrNoTable">>]
  ELSE IF tbls[table_name] = <<>> THEN Rows(<<>>)
  ELSE SelectFiltered(FilterRows(tbls[table_name], where_clause, <<>>),
                      select_list, limit)

\* ------------------------------------------------------------------------
\* join_tables (src/main.py:247-291)

\* table2_dict[key]: the last row of table2 whose join column holds key.
\* A lookup that keeps the first row of table2 with the key.
LookupFirstRow(table2, join_column, key) ==
  LET hits == {i \in 1..Len(table2) :
                 join_column \in DOMAIN table2[i] /\ table2[i][join_column] = key}
  IN table2[CHOOSE i \in hits : \A j \in hits : i <= j]

\* table2_dict[key] (lines 271-275): the last row of table2 with the key.
LookupRow(table2, join_column, key) ==
  LET hits == {i \in 1..Len(table2) :
                 join_column \in DOMAIN table2[i] /\ table2[i][join_column] = key}
  IN table2[CHOOSE i \in hits : \A j \in hits : j <= i]

InLookup(table2, join_column, key) ==
  \E i \in 1..Len(table2) :
     join_column \in DOMAIN table2[i] /\ table2[i][join_column] = key

\* A merge in which row1's value wins on a shared name.
MergeFirstWins(row1, row2) ==
  [col \in DOMAIN row1 \cup DOMAIN row2 |->
     IF col \in DOMAIN row1 THEN row1[col] ELSE row2[col]]

\* row1.copy() updated with row2: row2's value wins on a shared name.
Merge(row1, row2) ==
  [col \in DOMAIN row1 \cup DOMAIN row2 |->
     IF col \in DOMAIN row2 THEN row2[col] ELSE row1[col]]

\* One turn of the loop of lines 279-288.
JoinRow(row1, table2, join_column, acc) ==
  IF join_column \in DOMAIN row1 /\ InLookup(table2, join_column, row1[join_column])
  THEN AddUnique(acc, Merge(row1, LookupRow(table2, join_column, row1[join_column])))
  ELSE acc

RECURSIVE JoinRows(_, _, _, _)
JoinRows(table1, table2, join_column, acc) ==
  IF table1 = <<>> THEN acc
  ELSE JoinRows(Tail(table1), table2, join_column,
                JoinRow(Head(table1), table2, join_column, acc))

\* join_tables without the existence check of its second table.
join_tables_unchecked(tbls, table1_name, table2_name, join_column) ==
  IF table1_name \notin DOMAIN tbls
  THEN [kind |-> "None", rows |-> <<>>, diag |-> <<"ErrNoTable">>]
  ELSE IF table2_name \notin DOMAIN tbls THEN Rows(<<>>)
  ELSE IF tbls[table1_name] = <<>> \/ tbls[table2_name] = <<>> THEN Rows(<<>>)
  ELSE Rows(JoinRows(tbls[table1_name], tbls[table2_name], join_column, <<>>))

join_tables(tbls, table1_name, table2_name, join_column) ==
  IF table1_name \notin DOMAIN tbls \/ table2_name \notin DOMAIN tbls
  THEN [kind |-> "None", rows |-> <<>>, diag |-> <<"ErrNoTable">>]
  ELSE IF tbls[table1_name] = <<>> \/ tbls[table2_name] = <<>> THEN Rows(<<>>)
  ELSE Rows(JoinRows(tbls[table1_name], tbls[table2_name], join_column, <<>>))

\* ------------------------------------------------------------------------
\* execute_statement (src/main.py:293-376)
\* The interpreter's state is st = [tables, procedures, files, out, printed,
\* trace, raised]: the two stores of src/parser.py:5-8, the disk, the
\* diagnostics and the rows printed, the statements that entered
\* execute_statement, and whether an exception is propagating.

MaxDepth == 3

PutTable(st, name, rows) == [st EXCEPT !.tables = (name :> rows) @@ @]

Say(st, diag) == [st EXCEPT !.out = @ \o diag]

RECURSIVE execute_statement(_, _, _)
RECURSIVE ExecList(_, _, _)

\* for stmt in procedures[proc_name]: execute_statement(stmt), the calls made
\* at nesting depth `depth`.  A call beyond the host's stack limit raises
\* RecursionError in the caller.
Continue(s1, stmts, depth) ==
  IF s1.raised THEN s1 ELSE ExecList(s1, stmts, depth)

ExecList(st, stmts, depth) ==
  IF stmts = <<>> THEN st
  ELSE IF depth > MaxDepth THEN [st EXCEPT !.raised = TRUE]
  ELSE Continue(execute_statement(st, Head(stmts), depth), Tail(stmts), depth)

\* IMPORT (lines 305-309): data is what import_csv returned.
StoreImport(st, table_name, data) ==
  IF data.ok THEN PutTable(st, table_name, data.data)
  ELSE Say(st, <<"ErrImport">>)

\* SELECT (lines 340-346): r is what select_rows returned or raised.
ShowResult(st, r) ==
  IF r.kind = "raise" THEN Say(st, <<"ErrExec">>)
  ELSE IF r.kind = "rows" THEN [Say(st, r.diag) EXCEPT !.printed = <<r.rows>>]
  ELSE Say(st, r.diag)

\* CREATE TABLE (lines 348-360): r is what select_rows or join_tables
\* returned or raised.
StoreResult(st, new_table, r) ==
  IF r.kind = "raise" THEN Say(st, <<"ErrExec">>)
  ELSE IF r.kind = "rows" THEN PutTable(Say(st, r.diag), new_table, r.rows)
  ELSE Say(st, r.diag)

\* except Exception (line 375) also catches the RecursionError of a CALL.
Caught(r) ==
  IF r.raised THEN Say([r EXCEPT !.raised = FALSE], <<"ErrExec">>) ELSE r

\* A pop that leaves the key in place.
RemoveNothing(tbls, name) == tbls

\* tables.pop(name) / del tables[name]
Remove(tbls, name) == [n \in DOMAIN tbls \ {name} |-> tbls[n]]

Dispatch(st, statement, depth) ==
  CASE statement[1] = "IMPORT" ->
         StoreImport(st, statement[2], import_csv(st.files, statement[3]))
    [] statement[1] = "EXPORT" ->
         IF statement[2] \in DOMAIN st.tables
         THEN [st EXCEPT !.files =
                 export_csv(st.tables, st.files, statement[2], statement[3])]
         ELSE Say(st, <<"ErrNoTable">>)
    [] statement[1] = "DISCARD" ->
         IF statement[2] \in DOMAIN st.tables
         THEN [st EXCEPT !.tables = Remove(st.tables, statement[2])]
         ELSE Say(st, <<"ErrNoTable">>)
    [] statement[1] = "RENAME" ->
         IF statement[2] \in DOMAIN st.tables
         THEN [st EXCEPT !.tables = (statement[3] :> st.tables[statement[2]])
                                    @@ Remove(st.tables, statement[2])]
         ELSE Say(st, <<"ErrNoTable">>)
    [] statement[1] = "PRINT" ->
         IF Len(statement) # 2
         THEN \* PRINT TABLE t AS "f": the unpacking raises ValueError
              Say(st, <<"ErrExec">>)
         ELSE IF statement[2] \in DOMAIN st.tables
         THEN [st EXCEPT !.printed = <<st.tables[statement[2]]>>]
         ELSE Say(st, <<"ErrNoTable">>)
    [] statement[1] = "SELECT" ->
         ShowResult(st, select_rows(st.tables, statement[3], statement[2],
                                    statement[4], statement[5]))
    [] statement[1] = "CREATE_FROM_SELECT" ->
         StoreResult(st, statement[2],
                     select_rows(st.tables, statement[3][3], statement[3][2],
                                 statement[3][4], statement[3][5]))
    [] statement[1] = "CREATE_FROM_JOIN" ->
         StoreResult(st, statement[2],
                     join_tables(st.tables, statement[3], statement[4], statement[5]))
    [] statement[1] = "PROCEDURE" ->
         [st EXCEPT !.procedures = (statement[2] :> statement[3]) @@ @]
    [] statement[1] = "CALL" ->
         IF statement[2] \in DOMAIN st.procedures
         THEN Caught(ExecList(st, st.procedures[statement[2]], depth + 1))
         ELSE Say(st, <<"ErrNoProc">>)
    [] OTHER -> st

execute_statement(st, statement, depth) ==
  IF statement = <<>> THEN st
  ELSE Dispatch([st EXCEPT !.trace = Append(@, statement)], statement, depth)

\* ------------------------------------------------------------------------
\* parser.parse (src/parser.py:15-189) as main calls it (src/main.py:403)
\* The input is a list of statements as written; a well-formed one is given
\* by the tuple its grammar rule builds, <<"INVALID">> is a statement with a
\* syntax error in it (its tokens from the error on start no statement).
\* The grammar has no rule with the error token and p_error returns without
\* raising, so the LALR driver drops its whole stack at a syntax error,
\* skips tokens until one starts a statement and parses on from the initial
\* state; at the end of input it returns None if nothing well-formed
\* followed the last error.

RECURSIVE RegisterProcs(_, _)
RECURSIVE RegisterAll(_, _)

\* p_procedure_statement (src/parser.py:160-164) runs when the rule is
\* reduced, inner definitions before the one that holds them.
RegisterProcs(procs, stmt) ==
  IF stmt[1] = "PROCEDURE"
  THEN (stmt[2] :> stmt[3]) @@ RegisterAll(procs, stmt[3])
  ELSE procs

RegisterAll(procs, stmts) ==
  IF stmts = <<>> THEN procs
  ELSE RegisterAll(RegisterProcs(procs, Head(stmts)), Tail(stmts))

RECURSIVE ParseItems(_, _, _, _)
ParseItems(items, stack, procs, errors) ==
  IF items = <<>>
  THEN [result |-> stack, procedures |-> procs,
        errors |-> IF stack = <<>> /\ errors = 0 THEN 1 ELSE errors]
  ELSE IF Head(items) = <<"INVALID">>
  THEN ParseItems(Tail(items), <<>>, procs, errors + 1)
  ELSE ParseItems(Tail(items), Append(stack, Head(items)),
                  RegisterProcs(procs, Head(items)), errors)

\* result is <<>> for None.
parse(text, procs) == ParseItems(text, <<>>, procs, 0)

\* ------------------------------------------------------------------------
\* The interpreter as a state machine
\*   tables, procedures  the two stores (src/parser.py:5-8)
\*   files               the disk: file name -> list of lines
\*   input, result       the program text and what parser.parse made of it
\*   pc, idx             where main is, and how many statements it executed
\*   out, last           what the last statement printed as diagnostics; the
\*                       statement, the Table Store before it, the rows it
\*                       printed and the length of trace before it
\*   trace               the statements that entered execute_statement
\*   q                   arguments and results of evaluate_condition
\*   ids                 the identities of the row objects (dicts) each table's
\*                       list holds and the next identity to hand out, kept
\*                       by SpecRefs

EmptyMap == [n \in {} |-> <<>>]

State(tr) ==
  [tables |-> tables, procedures |-> procedures, files |-> files,
   out |-> <<>>, printed |-> <<>>, trace |-> tr, raised |-> FALSE]

\* What one turn of the loop of main (src/main.py:406-407) leaves: st is the
\* state execute_statement returned.  An exception that left
\* execute_statement would end the loop (line 408).
Effect(statement, st, tr, next_pc) ==
  /\ tables' = st.tables
  /\ procedures' = st.procedures
  /\ files' = st.files
  /\ out' = st.out
  /\ trace' = st.trace
  /\ last' = [stmt |-> statement, pre |-> tables, printed |-> st.printed,
              n |-> Len(tr)]
  /\ pc' = IF st.raised THEN "done" ELSE next_pc
  /\ idx' = idx + 1

Run(statement, tr, next_pc) ==
  Effect(statement, execute_statement(State(tr), statement, 0), tr, next_pc)

NoIds == [rows |-> EmptyMap, next |-> 0]

InitStores ==
  /\ ids = NoIds
  /\ procedures = EmptyMap
  /\ out = <<>>
  /\ trace = <<>>
  /\ idx = 0
  /\ last = [stmt |-> <<>>, pre |-> EmptyMap, printed |-> <<>>, n |-> 0]

K == <<"k">>
X == <<"x">>
Y == <<"y">>

Num(m, e) == [t |-> "num", v |-> Float(m, e)]
Str(s) == [t |-> "str", v |-> s]

\* ------------------------------------------------------------------------
\* Spec: the executor on any stream of statements.  Each step is one turn of
\* main's loop on a statement of the parsed program; trace holds the
\* statements of that turn.

TableNames == {"a", "b", "j"}
ProcNames == {"p"}

\* The files on disk when the interpreter starts; "f3" does not exist.
FileA1 == << <<"k", ",", "x">>, <<"1", ",", "a">>, <<"2", ",", "b">>,
             <<"1", ",", "a">> >>
FileA2 == << <<"k", ",", "x">>, <<"2", ",", "a">>, <<"a", ",", "b">> >>
FileB1 == << <<"k", ",", "y">>, <<"1", ",", "m">>, <<"3", ",", "n">> >>
FileB2 == << <<"k", ",", "x">>, <<"1", ",", "b">>, <<"1", ",", "p">>,
             <<"2", ",", "b">> >>

InitialDisks ==
  {("f1" :> a) @@ ("f2" :> b) : a \in {FileA1, FileA2}, b \in {FileB1, FileB2}}

ImportFiles == {"f1", "f2", "f3"}
ExportFiles == {"f3"}

SelectLists == {STAR, <<X>>}
WhereK == <<"WHERE", <<">", K, Num(1, 0)>>>>
WhereX == <<"WHERE", <<"=", X, Str(<<"a">>)>>>>
Filters ==
  {<<None, None>>, <<WhereK, None>>, <<WhereX, <<Float(1, 0)>>>>,
   <<None, <<Float(-1, 0)>>>>, <<WhereK, <<Float(-1, 0)>>>>}

SelectStmts ==
  {<<"SELECT", sl, t, f[1], f[2]>> :
     sl \in SelectLists, t \in {"a", "j"}, f \in Filters}

ProcBodies ==
  {<< <<"DISCARD", "a">> >>,
   << <<"IMPORT", "a", "f1">>, <<"CALL", "p">>, <<"DISCARD", "b">> >>}

MaxSteps == 3

Init ==
  /\ InitStores
  /\ tables = EmptyMap
  /\ files \in InitialDisks
  /\ pc = "exec"
  /\ input = <<>>
  /\ result = <<>>
  /\ q = <<>>

Ready == pc = "exec" /\ idx < MaxSteps

Import ==
  \E t \in {"a", "b"}, f \in ImportFiles :
     /\ Ready
     /\ Run(<<"IMPORT", t, f>>, <<>>, "exec")
     /\ UNCHANGED <<input, result, q, ids>>

Export ==
  \E t \in TableNames, f \in ExportFiles :
     /\ Ready
     /\ Run(<<"EXPORT", t, f>>, <<>>, "exec")
     /\ UNCHANGED <<input, result, q, ids>>

Discard ==
  \E t \in TableNames :
     /\ Ready
     /\ Run(<<"DISCARD", t>>, <<>>, "exec")
     /\ UNCHANGED <<input, result, q, ids>>

Rename ==
  \E o \in TableNames, n \in TableNames :
     /\ Ready
     /\ Run(<<"RENAME", o, n>>, <<>>, "exec")
     /\ UNCHANGED <<input, result, q, ids>>

PrintTable ==
  \E t \in TableNames :
     /\ Ready
     /\ Run(<<"PRINT", t>>, <<>>, "exec")
     /\ UNCHANGED <<input, result, q, ids>>

PrintTableAs ==
  \E t \in TableNames :
     /\ Ready
     /\ Run(<<"PRINT", t, "f3">>, <<>>, "exec")
     /\ UNCHANGED <<input, result, q, ids>>

Select ==
  \E s \in SelectStmts :
     /\ Ready
     /\ Run(s, <<>>, "exec")
     /\ UNCHANGED <<input, result, q, ids>>

CreateFromSelect ==
  \E s \in SelectStmts :
     /\ Ready
     /\ Run(<<"CREATE_FROM_SELECT", "j", s>>, <<>>, "exec")
     /\ UNCHANGED <<input, result, q, ids>>

CreateFromJoin ==
  \E t1 \in {"a", "b"}, t2 \in {"a", "b"}, c \in {K, X} :
     /\ Ready
     /\ Run(<<"CREATE_FROM_JOIN", "j", t1, t2, c>>, <<>>, "exec")
     /\ UNCHANGED <<input, result, q, ids>>

Procedure ==
  \E p \in ProcNames, b \in ProcBodies :
     /\ Ready
     /\ Run(<<"PROCEDURE", p, b>>, <<>>, "exec")
     /\ UNCHANGED <<input, result, q, ids>>

Call ==
  \E p \in ProcNames :
     /\ Ready
     /\ Run(<<"CALL", p>>, <<>>, "exec")
     /\ UNCHANGED <<input, result, q, ids>>

Next ==
  \/ Import \/ Export \/ Discard \/ Rename \/ PrintTable \/ PrintTableAs
  \/ Select \/ CreateFromSelect \/ CreateFromJoin \/ Procedure \/ Call

Spec == Init /\ [][Next]_vars

\* ------------------------------------------------------------------------
\* SpecMain: main on a whole program (src/main.py:401-409): parse, then
\* execute what the parser returned.  trace holds every statement executed.

MaxProgram == 3

Invalid == <<"INVALID">>

ProcP == <<"PROCEDURE", "p", << <<"IMPORT", "b", "f2">> >> >>
ProcNested ==
  <<"PROCEDURE", "p", << <<"PROCEDURE", "r", << <<"DISCARD", "a">> >> >> >> >>

Statements ==
  {Invalid, <<"IMPORT", "a", "f1">>, <<"DISCARD", "a">>, <<"PRINT", "b">>,
   ProcP, ProcNested, <<"CALL", "p">>, <<"CALL", "r">>}

Programs == UNION {[1..n -> Statements] : n \in 1..MaxProgram}

InitMain ==
  /\ InitStores
  /\ tables = EmptyMap
  /\ files = ("f1" :> FileA1) @@ ("f2" :> FileB1)
  /\ pc = "input"
  /\ input \in Programs
  /\ result = <<>>
  /\ q = <<>>

Parsed(r) ==
  /\ result' = r.result
  /\ procedures' = r.procedures
  /\ out' = IF r.errors > 0 THEN <<"SyntaxError">> ELSE <<>>

ParseInput ==
  /\ pc = "input"
  /\ Parsed(parse(input, procedures))
  /\ pc' = "exec"
  /\ UNCHANGED <<tables, files, trace, input, idx, last, q, ids>>

ExecuteNext ==
  /\ pc = "exec"
  /\ idx < Len(result)
  /\ Run(result[idx + 1], trace, "exec")
  /\ UNCHANGED <<input, result, q, ids>>

Finish ==
  /\ pc = "exec"
  /\ idx = Len(result)
  /\ pc' = "done"
  /\ UNCHANGED <<tables, procedures, files, out, trace, input, result, idx, last, q, ids>>

NextMain == ParseInput \/ ExecuteNext \/ Finish

SpecMain == InitMain /\ [][NextMain]_vars

\* ------------------------------------------------------------------------
\* SpecCsv: a file is imported as table t, t is exported and the export is
\* imported as table u.

MaxLineLen == 3
MaxCsvRows == 2

CsvChars == {"a", "3", COMMA, QUOTE, HASH}
CsvHeaders == {<<"a">>, <<"a", COMMA, "b">>}
CsvLines == SeqsUpTo(CsvChars, MaxLineLen)

CsvFiles ==
  {<<h>> \o d : h \in CsvHeaders, d \in SeqsUpTo(CsvLines, MaxCsvRows)}

InitCsv ==
  /\ InitStores
  /\ tables = EmptyMap
  /\ files \in {("f0" :> c) : c \in CsvFiles}
  /\ pc = "import"
  /\ input = <<>>
  /\ result = <<>>
  /\ q = <<>>

CsvImport ==
  /\ pc = "import"
  /\ Run(<<"IMPORT", "t", "f0">>, <<>>, "export")
  /\ UNCHANGED <<input, result, q, ids>>

CsvExport ==
  /\ pc = "export"
  /\ Run(<<"EXPORT", "t", "f">>, <<>>, "reimport")
  /\ UNCHANGED <<input, result, q, ids>>

CsvReimport ==
  /\ pc = "reimport"
  /\ Run(<<"IMPORT", "u", "f">>, <<>>, "done")
  /\ UNCHANGED <<input, result, q, ids>>

NextCsv == CsvImport \/ CsvExport \/ CsvReimport

SpecCsv == InitCsv /\ [][NextCsv]_vars

\* ------------------------------------------------------------------------
\* SpecImport: one IMPORT of a file with a valid header and any data lines
\* made of a value character, commas and double quotes.

MaxDataLen == 2
MaxDataRows == 2

DataChars == {"3", COMMA, QUOTE}
DataLines == SeqsUpTo(DataChars, MaxDataLen)
DataFiles ==
  {<<h>> \o d : h \in CsvHeaders, d \in SeqsUpTo(DataLines, MaxDataRows)}

InitImport ==
  /\ InitStores
  /\ tables = EmptyMap
  /\ files \in {("f0" :> c) : c \in DataFiles}
  /\ pc = "import"
  /\ input = <<>>
  /\ result = <<>>
  /\ q = <<>>

ImportFile ==
  /\ pc = "import"
  /\ Run(<<"IMPORT", "t", "f0">>, <<>>, "export")
  /\ UNCHANGED <<input, result, q, ids>>

NextImport == ImportFile

SpecImport == InitImport /\ [][NextImport]_vars

\* ------------------------------------------------------------------------
\* SpecEval: evaluate_condition on a row and on conditions A, B, A AND B.

MaxValueLen == 2

EvalChars == {"1", "2", DOT, MINUS, "a"}
EvalValues == SeqsUpTo(EvalChars, MaxValueLen)
EvalRows == {[c \in {K} |-> v] : v \in EvalValues} \cup {[c \in {X} |-> <<"1">>]}
Operators == {"=", "<>", "<", ">", "<=", ">="}
Literals ==
  {Num(1, 0), Num(15, 1), Str(<<"1">>), Str(<<"1", DOT>>), Str(<<"a">>)}
Comparisons == {<<op, K, v>> : op \in Operators, v \in Literals}

InitEval ==
  /\ InitStores
  /\ tables = EmptyMap
  /\ files = EmptyMap
  /\ pc = "args"
  /\ input = <<>>
  /\ result = <<>>
  /\ q \in [row : EvalRows, A : Comparisons, B : Comparisons,
            rA : {Bool(FALSE)}, rB : {Bool(FALSE)}, rAB : {Bool(FALSE)}]

Evaluate ==
  /\ pc = "args"
  /\ q' = [q EXCEPT !.rA = evaluate_condition(q.row, q.A),
                    !.rB = evaluate_condition(q.row, q.B),
                    !.rAB = evaluate_condition(q.row, <<"AND", q.A, q.B>>)]
  /\ pc' = "done"
  /\ UNCHANGED <<tables, procedures, files, out, trace, input, result, idx, last, ids>>

NextEval == Evaluate

SpecEval == InitEval /\ [][NextEval]_vars

\* ------------------------------------------------------------------------
\* SpecSelect: one SELECT on a table a of any content.
\* SpecJoin: one CREATE TABLE j FROM a JOIN b on tables of any content.
\* A table in the store holds rows of one key set, with stripped strings as
\* values: IMPORT makes such tables and SELECT and JOIN keep them so.

MaxRows == 2

TablesOver(rows) == SeqsUpTo(rows, MaxRows)

SelectRowsKX ==
  {[c \in {K, X} |-> IF c = K THEN k ELSE x] :
     k \in {<<"1">>, <<"2">>, <<"a">>}, x \in {<<"a">>, <<"b">>}}

QueryLimits ==
  {None, <<Float(0, 0)>>, <<Float(1, 0)>>, <<Float(25, 1)>>, <<Float(-1, 0)>>}
QueryWheres ==
  {None, WhereK, WhereX, <<"WHERE", <<">=", K, Str(<<"1">>)>>>>}
QueryStmts ==
  {<<"SELECT", sl, "a", w, l>> :
     sl \in SelectLists, w \in QueryWheres, l \in QueryLimits}

InitSelect ==
  /\ InitStores
  /\ tables \in {("a" :> t) : t \in TablesOver(SelectRowsKX)}
  /\ files = EmptyMap
  /\ pc = "query"
  /\ input = <<>>
  /\ result = <<>>
  /\ q = <<>>

Query ==
  \E s \in QueryStmts :
     /\ pc = "query"
     /\ Run(s, <<>>, "done")
     /\ UNCHANGED <<input, result, q, ids>>

NextSelect == Query

SpecSelect == InitSelect /\ [][NextSelect]_vars

JoinValues == {<<"1">>, <<"2">>}
RowsOver(cols) == [cols -> JoinValues]
JoinTablesA == TablesOver(RowsOver({K, X})) \cup TablesOver(RowsOver({X}))
JoinTablesB ==
  TablesOver(RowsOver({K, Y})) \cup TablesOver(RowsOver({K, X}))
  \cup TablesOver(RowsOver({Y}))

InitJoin ==
  /\ InitStores
  /\ tables \in {("a" :> ta) @@ ("b" :> tb) : ta \in JoinTablesA, tb \in JoinTablesB}
  /\ files = EmptyMap
  /\ pc = "query"
  /\ input = <<>>
  /\ result = <<>>
  /\ q = <<>>

Join ==
  \E c \in {K, X} :
     /\ pc = "query"
     /\ Run(<<"CREATE_FROM_JOIN", "j", "a", "b", c>>, <<>>, "done")
     /\ UNCHANGED <<input, result, q, ids>>

NextJoin == Join

SpecJoin == InitJoin /\ [][NextJoin]_vars

\* ------------------------------------------------------------------------
\* SpecRefs: the statements that put lists of rows in the Table Store, with
\* the identity of each row object.  A dict display or comprehension and
\* dict.copy() make a new object; appending a row to a list, returning the
\* list and tables[new] = tables.pop(old) pass the same objects on.

\* n new row objects stored under name.
Alloc(h, name, n) ==
  [rows |-> (name :> [i \in 1..n |-> h.next + i]) @@ h.rows, next |-> h.next + n]

\* import_csv builds each row with a dict comprehension (src/main.py:201).
IdsImport(h, table_name, data) ==
  IF data.ok THEN Alloc(h, table_name, Len(data.data)) ELSE h

\* The first row of table equal to row: the one line 95 appended.
FirstIndex(table, row) ==
  CHOOSE i \in 1..Len(table) :
     table[i] = row /\ \A h \in 1..(i - 1) : table[h] # row

\* select_rows returns filtered_rows itself for '*' (line 116), the rows
\* that line 95 appended; for a column list it builds new dicts (line 111).
IdsSelect(h, tbls, new_table, table_name, select_list, r) ==
  IF r.kind # "rows" THEN h
  ELSE IF select_list = STAR
  THEN [h EXCEPT !.rows =
          (new_table :> [n \in 1..Len(r.rows) |->
                           h.rows[table_name][FirstIndex(tbls[table_name], r.rows[n])]])
          @@ @]
  ELSE Alloc(h, new_table, Len(r.rows))

\* join_tables appends row1.copy() updated (lines 283-288).
IdsJoin(h, new_table, r) ==
  IF r.kind = "rows" THEN Alloc(h, new_table, Len(r.rows)) ELSE h

\* tables[new_name] = tables.pop(old_name) (line 326).
IdsRename(h, tbls, old_name, new_name) ==
  IF old_name \in DOMAIN tbls
  THEN [h EXCEPT !.rows = (new_name :> h.rows[old_name]) @@ Remove(h.rows, old_name)]
  ELSE h

RefFilters == {<<None, None>>, <<WhereX, <<Float(1, 0)>>>>}

InitRefs == Init

RefImport ==
  \E t \in {"a", "b"}, f \in {"f1", "f2"} :
     /\ Ready
     /\ Run(<<"IMPORT", t, f>>, <<>>, "exec")
     /\ ids' = IdsImport(ids, t, import_csv(files, f))
     /\ UNCHANGED <<input, result, q>>

RefCreateFromSelect ==
  \E n \in {"b", "j"}, sl \in SelectLists, t \in {"a", "j"}, f \in RefFilters :
     /\ Ready
     /\ Run(<<"CREATE_FROM_SELECT", n, <<"SELECT", sl, t, f[1], f[2]>>>>, <<>>, "exec")
     /\ ids' = IdsSelect(ids, tables, n, t, sl,
                         select_rows(tables, t, sl, f[1], f[2]))
     /\ UNCHANGED <<input, result, q>>

RefCreateFromJoin ==
  \E t1 \in {"a", "b"}, t2 \in {"a", "b"} :
     /\ Ready
     /\ Run(<<"CREATE_FROM_JOIN", "j", t1, t2, K>>, <<>>, "exec")
     /\ ids' = IdsJoin(ids, "j", join_tables(tables, t1, t2, K))
     /\ UNCHANGED <<input, result, q>>

RefRename ==
  \E o \in TableNames, n \in TableNames :
     /\ Ready
     /\ Run(<<"RENAME", o, n>>, <<>>, "exec")
     /\ ids' = IdsRename(ids, tables, o, n)
     /\ UNCHANGED <<input, result, q>>

NextRefs == RefImport \/ RefCreateFromSelect \/ RefCreateFromJoin \/ RefRename

SpecRefs == InitRefs /\ [][NextRefs]_vars

\* ------------------------------------------------------------------------
\* Properties

\* int(limit) < 0 in the LIMIT of a SELECT statement (src/main.py:100-101).
NegativeLimit(select) ==
  select[5] # None /\ IntOfFloat(select[5][1]) < 0

HasNegativeLimit(statement) ==
  \/ statement[1] = "SELECT" /\ NegativeLimit(statement)
  \/ statement[1] = "CREATE_FROM_SELECT" /\ NegativeLimit(statement[3])

\* The statement names a table that is not a key of tbls.
NamesAbsentTable(statement, tbls) ==
  \/ /\ statement[1] \in {"DISCARD", "RENAME", "PRINT", "EXPORT"}
     /\ statement[2] \notin DOMAIN tbls
  \/ statement[1] = "SELECT" /\ statement[3] \notin DOMAIN tbls
  \/ statement[1] = "CREATE_FROM_SELECT" /\ statement[3][3] \notin DOMAIN tbls
  \/ /\ statement[1] = "CREATE_FROM_JOIN"
     /\ (statement[3] \notin DOMAIN tbls \/ statement[4] \notin DOMAIN tbls)

Executed == last.stmt # <<>>

\* C1: a program with a syntactically invalid statement anywhere in it
\* executes no statement: nothing reaches execute_statement.
C1_InvalidProgramExecutesNothing ==
  (\E i \in 1..Len(input) : input[i] = Invalid) => trace = <<>>

\* C2: a SELECT or CREATE TABLE n SELECT with a negative LIMIT prints a
\* diagnostic, leaves the Table Store exactly as it was before the statement,
\* and the loop goes on to the next statement.
C2_NegativeLimitNoMutation ==
  (Executed /\ HasNegativeLimit(last.stmt)) =>
     /\ out # <<>>
     /\ tables = last.pre
     /\ pc = "exec"

\* C3: a CALL p executed when no PROCEDURE p statement has been executed
\* before it reports procedure-not-found and runs no statement of p.
C3_CallBeforeDefinitionNotFound ==
  (/\ Executed
   /\ last.stmt[1] = "CALL"
   /\ \A i \in 1..last.n :
         ~(trace[i][1] = "PROCEDURE" /\ trace[i][2] = last.stmt[2])) =>
     /\ out = <<"ErrNoProc">>
     /\ Len(trace) = last.n + 1

\* C4: a statement that names a table absent from the Table Store reports an
\* error, leaves the whole Table Store unchanged, and the loop goes on to the
\* next statement.
C4_AbsentTableReported ==
  (Executed /\ NamesAbsentTable(last.stmt, last.pre)) =>
     /\ out \in {<<"ErrNoTable">>, <<"ErrExec">>}
     /\ tables = last.pre
     /\ pc = "exec"

\* A join whose first table exists and whose second does not was executed
\* with tables in the store.
C4_Witness ==
  /\ Executed
  /\ last.stmt[1] = "CREATE_FROM_JOIN"
  /\ last.stmt[3] \in DOMAIN last.pre
  /\ last.stmt[4] \notin DOMAIN last.pre
  /\ out = <<"ErrNoTable">>
  /\ tables = last.pre

RenameOfExisting ==
  /\ Executed
  /\ last.stmt[1] = "RENAME"
  /\ last.stmt[2] \in DOMAIN last.pre
  /\ last.stmt[3] \in DOMAIN last.pre

\* new holds old's rows, old is gone, the rest is as before.
Renamed(old, new) ==
  /\ DOMAIN tables = DOMAIN last.pre \ {old}
  /\ tables[new] = last.pre[old]
  /\ \A t \in DOMAIN last.pre \ {old, new} : tables[t] = last.pre[t]

\* C5 as stated: for every pair of names old and new that both exist, after
\* RENAME TABLE old new the name new maps to the rows old held, old is no
\* longer a key and every other table is unchanged.
C5_RenameAnyPair ==
  RenameOfExisting =>
     /\ last.stmt[2] \notin DOMAIN tables
     /\ last.stmt[3] \in DOMAIN tables
     /\ Renamed(last.stmt[2], last.stmt[3])

\* C5: for distinct names old and new that both exist, after RENAME TABLE old
\* new the name new maps to the rows old held, old is no longer a key and
\* every other table is unchanged; RENAME TABLE t t leaves the store as it is.
C5_RenameDistinct ==
  RenameOfExisting =>
     IF last.stmt[2] # last.stmt[3]
     THEN /\ last.stmt[2] \notin DOMAIN tables
          /\ last.stmt[3] \in DOMAIN tables
          /\ Renamed(last.stmt[2], last.stmt[3])
     ELSE tables = last.pre

\* A table was renamed onto another table that held different rows.
C5_Witness ==
  /\ RenameOfExisting
  /\ last.stmt[2] # last.stmt[3]
  /\ last.pre[last.stmt[2]] # last.pre[last.stmt[3]]
  /\ tables[last.stmt[3]] = last.pre[last.stmt[2]]

RowSet(rows) == {rows[i] : i \in 1..Len(rows)}

\* C6: for every table t in the store, EXPORT TABLE t AS f followed by IMPORT
\* TABLE u FROM f leaves u holding rows equal, as sets of column-to-value
\* pairs, to the rows of t (an empty t, and values with commas, double quotes
\* or a leading '#' included).
C6_ExportImportRoundTrip ==
  (pc = "done" /\ "t" \in DOMAIN tables) =>
     /\ "u" \in DOMAIN tables
     /\ RowSet(tables["u"]) = RowSet(tables["t"])

\* The condition holds of the row: its evaluation returns True.
Satisfies(c, row) == ~c.raised /\ c.val

\* The indices of the rows of t that satisfy the WHERE clause and equal no
\* earlier row of t.
FirstOccurrences(t, where_clause) ==
  {i \in 1..Len(t) :
     /\ Satisfies(evaluate_condition(t[i], where_clause), t[i])
     /\ \A h \in 1..(i - 1) : t[h] # t[i]}

Least(I) == CHOOSE m \in I : \A i \in I : m <= i

RECURSIVE InOrder(_, _)
InOrder(t, I) ==
  IF I = {} THEN <<>> ELSE <<t[Least(I)]>> \o InOrder(t, I \ {Least(I)})

FirstN(rows, limit) ==
  IF limit = None \/ IntOfFloat(limit[1]) >= Len(rows) THEN rows
  ELSE SubSeq(rows, 1, IntOfFloat(limit[1]))

\* C7: SELECT * FROM t [WHERE c] [LIMIT n] with n non-negative returns the
\* rows of t that satisfy c, first occurrences only, in their order in t,
\* cut to the first n.
C7_SelectStar ==
  (/\ pc = "done"
   /\ Executed
   /\ last.stmt[1] = "SELECT"
   /\ last.stmt[2] = STAR
   /\ ~NegativeLimit(last.stmt)) =>
     last.printed =
       << FirstN(InOrder(last.pre["a"], FirstOccurrences(last.pre["a"], last.stmt[4])),
                 last.stmt[5]) >>

\* C8: evaluate_condition(r, A AND B) is the conjunction of
\* evaluate_condition(r, A) and evaluate_condition(r, B), and each of the
\* three evaluations returns a boolean.
C8_AndIsConjunction ==
  pc = "done" =>
     /\ ~q.rA.raised
     /\ ~q.rB.raised
     /\ ~q.rAB.raised
     /\ q.rAB.val = (q.rA.val /\ q.rB.val)

\* The rows of b that row ra of a matches on the join column.
Partners(ra, b, join_column) ==
  {m \in 1..Len(b) :
     /\ join_column \in DOMAIN ra
     /\ join_column \in DOMAIN b[m]
     /\ b[m][join_column] = ra[join_column]}

Matched(a, b, join_column) ==
  {i \in 1..Len(a) : Partners(a[i], b, join_column) # {}}

\* The fields of both rows, with b's value where a name occurs in both.
Combined(ra, rb) ==
  [col \in DOMAIN ra \cup DOMAIN rb |->
     IF col \in DOMAIN rb THEN rb[col] ELSE ra[col]]

NoDuplicates(rows) ==
  \A m, n \in 1..Len(rows) : rows[m] = rows[n] => m = n

\* j holds, once each, the rows that combine every matched row of a with one
\* of its partners in b, and nothing else.
JoinOf(a, b, join_column, j) ==
  /\ NoDuplicates(j)
  /\ \E g \in [Matched(a, b, join_column) -> 1..Len(b)] :
        /\ \A i \in DOMAIN g : g[i] \in Partners(a[i], b, join_column)
        /\ RowSet(j) = {Combined(a[i], b[g[i]]) : i \in DOMAIN g}

\* C9: for non-empty a and b, CREATE TABLE j FROM a JOIN b USING (k) stores
\* in j one merged row for each row of a whose k value is present and equals
\* the k value of a row of b, and no other row; a merged row has the fields
\* of both rows, with b's value on a shared name; equal merged rows appear
\* once.
C9_JoinStoresMergedRows ==
  (pc = "done" /\ last.pre["a"] # <<>> /\ last.pre["b"] # <<>>) =>
     /\ "j" \in DOMAIN tables
     /\ JoinOf(last.pre["a"], last.pre["b"], last.stmt[5], tables["j"])

\* A join of non-empty tables in which a row of a has a partner and another
\* has none, and a shared name other than the join column took b's value.
C9_Witness ==
  /\ pc = "done"
  /\ "j" \in DOMAIN tables
  /\ tables["j"] # <<>>
  /\ Matched(last.pre["a"], last.pre["b"], last.stmt[5]) \notin
       {{}, 1..Len(last.pre["a"])}
  /\ \E i \in 1..Len(last.pre["a"]), col \in DOMAIN tables["j"][1] :
        /\ col # last.stmt[5]
        /\ col \in DOMAIN last.pre["a"][i]
        /\ i \in Matched(last.pre["a"], last.pre["b"], last.stmt[5])
        /\ \A n \in 1..Len(tables["j"]) :
              tables["j"][n][col] # last.pre["a"][i][col]

\* The type of a stored value: a str is held as the sequence of its
\* characters, and import_csv stores what parse_csv_line returned.
TypeOf(v) == IF v \in Seq(STRING) THEN "str" ELSE "int"

\* C10: after IMPORT a field written with digits only is stored as an
\* integer: the row value for a field written 3 is the integer 3, not the
\* string "3".
C10_ImportStoresIntegers ==
  (pc = "export" /\ "t" \in DOMAIN tables) =>
     \A i \in 1..Len(tables["t"]) :
        \A col \in DOMAIN tables["t"][i] :
           tables["t"][i][col] = <<"3">> => TypeOf(tables["t"][i][col]) = "int"

IdSet(name) == {ids.rows[name][i] : i \in 1..Len(ids.rows[name])}

\* C11: in every reachable Table Store no row object is shared between two
\* tables: the rows of distinct table names are distinct objects.
C11_NoSharedRows ==
  \A t1, t2 \in DOMAIN ids.rows : t1 # t2 => IdSet(t1) \cap IdSet(t2) = {}

\* The body of a procedure holds a CALL of the procedure itself.
CallsItself(name, procs) ==
  \E i \in 1..Len(procs[name]) : procs[name][i] = <<"CALL", name>>

\* C12: when a procedure that calls itself is CALLed, the failure at the
\* call-stack limit leaves the executor: it is not caught, and no later
\* statement of the procedure body or of the program is executed after it.
C12_RecursionNotIntercepted ==
  (/\ Executed
   /\ last.stmt[1] = "CALL"
   /\ last.stmt[2] \in DOMAIN procedures
   /\ CallsItself(last.stmt[2], procedures)) =>
     /\ pc = "done"
     /\ out = <<>>
     /\ trace[Len(trace)] = last.stmt

\* The number of double quotes in a line.
RECURSIVE QuoteCount(_)
QuoteCount(line) ==
  IF line = <<>> THEN 0
  ELSE (IF Head(line) = QUOTE THEN 1 ELSE 0) + QuoteCount(Tail(line))

\* The lines of a file that are not blank and not comments, stripped.
Content(file) ==
  [n \in 1..Len(InOrder(file, {i \in 1..Len(file) :
                                  /\ strip(file[i]) # <<>>
                                  /\ strip(file[i])[1] # HASH})) |->
     strip(InOrder(file, {i \in 1..Len(file) :
                            /\ strip(file[i]) # <<>>
                            /\ strip(file[i])[1] # HASH})[n])]

\* A data row is well-formed: its quoting is closed (every quote that opens
\* a field is closed, so the quotes are even in number) and it has as many
\* fields as the header.
WellFormed(header, line) ==
  /\ QuoteCount(line) % 2 = 0
  /\ Len(parse_csv_line(line).values) = Len(parse_csv_line(header).values)

\* The rows of the well-formed data lines of content, in file order.
WellFormedRows(content) ==
  [n \in 1..Cardinality({i \in 2..Len(content) : WellFormed(content[1], content[i])}) |->
     ZipRow(parse_csv_line(content[1]).values,
            parse_csv_line(
              InOrder(content,
                      {i \in 2..Len(content) : WellFormed(content[1], content[i])})[n]
            ).values)]

\* C13: during IMPORT a data row whose field count differs from the header's
\* or whose quoting is left open is skipped and does not abort the import:
\* the table is stored under the given name and holds exactly the
\* well-formed data rows, in file order.
C13_MalformedRowsSkipped ==
  pc = "export" =>
     /\ "t" \in DOMAIN tables
     /\ tables["t"] = WellFormedRows(Content(files["f0"]))

\* A file whose first data row has a wrong field count or open quoting and
\* whose second is well-formed was imported: the table holds the second row.
C13_Witness ==
  /\ pc = "export"
  /\ Len(Content(files["f0"])) = 3
  /\ ~WellFormed(Content(files["f0"])[1], Content(files["f0"])[2])
  /\ WellFormed(Content(files["f0"])[1], Content(files["f0"])[3])
  /\ "t" \in DOMAIN tables
  /\ Len(tables["t"]) = 1

\* The last row of b that row ra of a matches on the join column.
LastPartner(ra, b, join_column) ==
  CHOOSE m \in Partners(ra, b, join_column) :
     \A n \in Partners(ra, b, join_column) : n <= m

\* C14: when several rows of the second table share a join-key value, a
\* first-table row with that key is merged only with the last of them: the
\* rows of j are the merges of the matched rows of a with their last partner
\* in b, and j never has more rows than a.
C14_JoinLastWriteWins ==
  (pc = "done" /\ last.pre["a"] # <<>> /\ last.pre["b"] # <<>>) =>
     /\ "j" \in DOMAIN tables
     /\ RowSet(tables["j"]) =
          {Combined(last.pre["a"][i],
                    last.pre["b"][LastPartner(last.pre["a"][i], last.pre["b"], last.stmt[5])]) :
             i \in Matched(last.pre["a"], last.pre["b"], last.stmt[5])}
     /\ Len(tables["j"]) <= Len(last.pre["a"])

\* A row of a had two partners in b that differ, and j holds one row, the
\* merge with the second of them.
C14_Witness ==
  /\ pc = "done"
  /\ "j" \in DOMAIN tables
  /\ last.pre["a"] # <<>>
  /\ Len(last.pre["b"]) = 2
  /\ last.pre["b"][1] # last.pre["b"][2]
  /\ Partners(last.pre["a"][1], last.pre["b"], last.stmt[5]) = {1, 2}
  /\ tables["j"] = <<Combined(last.pre["a"][1], last.pre["b"][2])>>
  /\ tables["j"][1] # Combined(last.pre["a"][1], last.pre["b"][1])

====
